---- MODULE Spec2Model ----
(***************************************************************************)
(* Model of geryonfuse.mongofs.mongooperations.MongoOperations: a FUSE     *)
(* filesystem whose nodes are documents of one MongoDB collection, keyed   *)
(* by their path.                                                          *)
(*                                                                         *)
(* A path is a sequence of one-character strings (<<"/", "a">> is "/a"),   *)
(* a byte string is a sequence of numbers, and the collection is the       *)
(* bag of its documents.  A document is a record; a directory document has *)
(* no content and no size field, as in __build_doc.                        *)
(***************************************************************************)
EXTENDS Integers, Sequences, FiniteSets, Bags, TLC

VARIABLES
    store,   \* self.col: the documents of the collection, 
    clock,   \* datetime.datetime.utcnow(), as a logical time
    before,  \* the collection as it was when the last operation was called
    last,    \* the last operation called: its name, arguments and result
    threads  \* the calls in progress in the threads of the bridge

vars == <<store, clock, before, last, threads>>

----------------------------------------------------------------------------
(* Bounds of the model *)

\* The collection holds at most MaxDocs documents.
MaxDocs == 4
\* The logical time runs from 0 to MaxClock.
MaxClock == 1
\* write is called with buffers of 0..MaxBuf bytes.
MaxBuf == 1
\* write is called at offsets 0..MaxOffset, truncate and read with lengths
\* 0..MaxOffset.
MaxOffset == 1

Root == <<"/">>

\* The paths the bridge calls the operations with: "/", "/a", "/ab", "/a/b".
Paths ==
    { Root, <<"/", "a">>, <<"/", "a", "b">>, <<"/", "a", "/", "b">> }

\* The paths of the specification of the names: "/", "/a", "/a/b", and the
\* paths "/.", "/a+", "/a+/b", whose "." and "+" are special characters of a
\* regular expression.
NamePaths ==
    { Root, <<"/", "a">>, <<"/", "a", "/", "b">>,
      <<"/", ".">>, <<"/", "a", "+">>, <<"/", "a", "+", "/", "b">> }

\* The paths of the specification of the file contents: "/", "/a".
DataPaths == { Root, <<"/", "a">> }

\* The paths of the calls that run at the same time: "/a", "/a/b".
ConcPaths == { <<"/", "a">>, <<"/", "a", "/", "b">> }

\* The paths of the specification of the timestamps: "/", "/a", "/ab".
ClockPaths == { Root, <<"/", "a">>, <<"/", "a", "b">> }

\* The data bytes written; the byte 0 comes from BytesIO's padding only.
DataBytes == {1}

RECURSIVE SeqsUpTo(_, _)
SeqsUpTo(S, n) ==
    IF n = 0 THEN { <<>> }
    ELSE LET shorter == SeqsUpTo(S, n - 1)
         IN  shorter \cup { Append(s, x) : s \in { t \in shorter : Len(t) = n - 1 }, x \in S }

\* The buffers of write, the empty one among them.
Bufs == SeqsUpTo(DataBytes, MaxBuf)
Offsets == 0..MaxOffset

----------------------------------------------------------------------------
(* Return values and errors *)

NOT_IMPLEMENT_EXIT_CODE == 0
SUCCESS_EXIT_CODE == 0
ERROR_EXIT_CODE == 1

----------------------------------------------------------------------------
(* The collection: pymongo's calls on self.col *)

\* A collection is a bag of documents: store[doc] is the number of copies of
\* doc it holds.  MongoDB promises no order among the documents of a find
\* without a sort.
NoDocs == EmptyBag

\* One document as a bag.
One(doc) == SetToBag({doc})

\* The documents at path p.
AtPath(s, p) == { d \in BagToSet(s) : d.path = p }

\* col.find_one({"path": p}): a document at path p, or the empty sequence for
\* None.
FindOne(s, p) ==
    IF AtPath(s, p) = {} THEN <<>> ELSE <<CHOOSE d \in AtPath(s, p) : TRUE>>

\* find_one without the type in its filter
FindOneAnyType(s, p) == FindOne(s, p)

\* col.find_one({"path": p, "type": "dir"})
FindOneDir(s, p) ==
    LET hits == { d \in AtPath(s, p) : d.type = "dir" }
    IN  IF hits = {} THEN <<>> ELSE <<CHOOSE d \in hits : TRUE>>

\* col.delete_one({"path": p}): deletes one document at path p.
DeleteOne(s, p) ==
    IF AtPath(s, p) = {} THEN s ELSE s (-) One(FindOne(s, p)[1])

\* The characters that repeat the item before them in a regular expression.
Quantifiers == {"*", "+", "?"}

\* The items of the regular expression written in pattern, from its position
\* i on.  The code puts a path into its patterns as it is, so the characters
\* of the path are read as the regular expression reads them: "." stands for
\* any character, "*", "+" and "?" repeat the item before them, and the other
\* characters stand for themselves.
RECURSIVE Compile(_, _)
Compile(pattern, i) ==
    IF i > Len(pattern) THEN <<>>
    ELSE LET c == pattern[i]
             quantified == i < Len(pattern) /\ pattern[i + 1] \in Quantifiers
             item == [kind |-> IF c = "." THEN "any" ELSE "char",
                      char |-> c,
                      repeat |-> IF quantified THEN pattern[i + 1] ELSE "1"]
         IN  <<item>> \o Compile(pattern, i + (IF quantified THEN 2 ELSE 1))

\* The item "[^/]+"
NotSlashPlus == [kind |-> "notslash", char |-> "/", repeat |-> "+"]

\* Whether the character c is one the item stands for.
Fits(item, c) ==
    CASE item.kind = "any" -> TRUE
      [] item.kind = "char" -> c = item.char
      [] item.kind = "notslash" -> c # "/"

\* The number of characters of p from position i on that the item stands for.
RECURSIVE Run(_, _, _)
Run(item, p, i) ==
    IF i <= Len(p) /\ Fits(item, p[i]) THEN 1 + Run(item, p, i + 1) ELSE 0

\* The positions after the matches of the items from the k-th on with p from
\* position i on, in the order the regular expression tries them: a repeated
\* item takes as many characters as it can first.
RECURSIVE Ends(_, _, _, _)
RECURSIVE EndsFrom(_, _, _, _, _, _)
Ends(items, k, p, i) ==
    IF k > Len(items) THEN <<i>>
    ELSE LET item == items[k]
             run == Run(item, p, i)
             least == IF item.repeat \in {"1", "+"} THEN 1 ELSE 0
             most == IF item.repeat \in {"*", "+"} THEN run
                     ELSE IF run > 0 THEN 1 ELSE 0
         IN  EndsFrom(items, k, p, i, most, least)
EndsFrom(items, k, p, i, n, least) ==
    IF n < least THEN <<>>
    ELSE Ends(items, k + 1, p, i + n) \o EndsFrom(items, k, p, i, n - 1, least)

\* {"$regex": f"{path}/*"}: an unanchored search for the regular expression
\* path followed by zero or more "/".  For a path without special characters
\* it finds every path that contains the text of path.
RegexPathSlashStar(path, p) ==
    LET items == Compile(path \o <<"/", "*">>, 1)
    IN  \E i \in 1..(Len(p) + 1) : Ends(items, 1, p, i) # <<>>

\* col.delete_many({"path": {"$regex": f"{path}/*"}})
DeleteManyRegex(s, path) ==
    [d \in { e \in BagToSet(s) : ~RegexPathSlashStar(path, e.path) } |-> s[d]]

\* A collection without a unique key
DuplicateKeyOff(s, skip, p) == FALSE

\* The unique key on path: whether a document other than those of the bag
\* skip already has the path p.
DuplicateKey(s, skip, p) ==
    AtPath(s (-) skip, p) # {}

\* col.insert_one(doc): [ok, s], ok FALSE for DuplicateKeyError.
InsertOne(s, doc) ==
    IF DuplicateKey(s, NoDocs, doc.path)
    THEN [ok |-> FALSE, s |-> s]
    ELSE [ok |-> TRUE, s |-> s (+) One(doc)]

\* {"$set": upd} on a document.
SetFields(doc, upd) ==
    [f \in DOMAIN doc \cup DOMAIN upd |-> IF f \in DOMAIN upd THEN upd[f] ELSE doc[f]]

\* col.update_one({"path": p}, {"$set": upd}): updates one document at path
\* p.  matched is the result's matched_count; ok is FALSE for
\* DuplicateKeyError.
UpdateOne(s, p, upd) ==
    IF AtPath(s, p) = {} THEN [ok |-> TRUE, matched |-> 0, s |-> s]
    ELSE LET old == FindOne(s, p)[1]
             doc == SetFields(old, upd)
         IN  IF DuplicateKey(s, One(old), doc.path)
             THEN [ok |-> FALSE, matched |-> 0, s |-> s]
             ELSE [ok |-> TRUE, matched |-> 1, s |-> (s (-) One(old)) (+) One(doc)]

----------------------------------------------------------------------------
(* Helpers of MongoOperations *)

\* path.rfind("/"), counted from 1; 0 when there is no "/".
RFindSlash(path) ==
    LET hits == { i \in 1..Len(path) : path[i] = "/" }
    IN  IF hits = {} THEN 0 ELSE CHOOSE i \in hits : \A j \in hits : j <= i

\* __parent_path
ParentPath(path) ==
    LET last_slash_pos == RFindSlash(path) - 1
    IN  IF last_slash_pos = 0 THEN Root
        ELSE IF last_slash_pos = -1 THEN SubSeq(path, 1, Len(path) - 1)
        ELSE SubSeq(path, 1, last_slash_pos)

\* __build_doc
BuildDoc(path, doc_type, content, now) ==
    LET doc == [path |-> path, type |-> doc_type, created_at |-> now, last_updated_at |-> now]
    IN  IF content # <<>>
        THEN doc @@ [content |-> content[1], size |-> Len(content[1])]
        ELSE doc

\* __create_doc: content is <<>> for None, <<bytes>> otherwise.
CreateDoc(s, path, doc_type, content, now) ==
    InsertOne(s, BuildDoc(path, doc_type, content, now))

\* __create_file that passes no content on
CreateFileNoContent(s, path, now) == CreateDoc(s, path, "file", <<>>, now)

\* __create_file, with its default content b""
CreateFile(s, path, now) == CreateDoc(s, path, "file", << <<>> >>, now)

\* __create_dir
CreateDir(s, path, now) == CreateDoc(s, path, "dir", <<>>, now)

\* create_root
CreateRoot(s, now) == CreateDir(s, Root, now)

\* io.BytesIO(content); seek(offset); write(buf); seek(0); read()
RECURSIVE Zeros(_)
Zeros(n) == IF n <= 0 THEN <<>> ELSE <<0>> \o Zeros(n - 1)

\* content[a:b] of Python, for 0 <= a and 0 <= b.
Slice(content, a, b) ==
    LET hi == IF b < Len(content) THEN b ELSE Len(content)
    IN  [i \in 1..(IF hi > a THEN hi - a ELSE 0) |-> content[a + i]]

\* write without its file_io.seek(0): read() starts where the write ended
BytesIOWriteNoRewind(content, offset, buf) ==
    IF Len(buf) = 0 THEN Slice(content, offset, Len(content))
    ELSE Slice(content, offset + Len(buf), Len(content))

\* a buffer that does not pad a write past its end
BytesIOWriteNoPad(content, offset, buf) ==
    IF Len(buf) = 0 THEN content
    ELSE Slice(content, 0, offset)
         \o buf
         \o Slice(content, offset + Len(buf), Len(content))

BytesIOWrite(content, offset, buf) ==
    IF Len(buf) = 0 THEN content
    ELSE Slice(content, 0, offset)
         \o Zeros(offset - Len(content))
         \o buf
         \o Slice(content, offset + Len(buf), Len(content))

\* read without its seek(offset)
BytesIOReadFromStart(content, offset, length) ==
    Slice(content, 0, length)

\* io.BytesIO(content); seek(offset); read(length)
BytesIORead(content, offset, length) ==
    Slice(content, offset, offset + length)

\* stat.S_IFDIR | 0o777 and stat.S_IFREG | 0o666
DirMode == 16895
FileMode == 33206
\* block_size, and the st_size of a directory
BlockSize == 1000000
DirSize == 4096

\* The offsets of the local time of the machine from UTC, in seconds: those
\* of the zones EST5, UTC, CET-1 and IST-5:30.
UtcOffsets == { -18000, 0, 3600, 19800 }

\* doc["last_updated_at"].timestamp(): last_updated_at is the naive datetime
\* of utcnow(), and timestamp() reads a naive datetime as local time.
Timestamp(naive, utcoffset) == naive - utcoffset

\* __build_stat_from_doc, without st_uid and st_gid, which come from
\* fuse.fuse_get_context(); now is time.time() and utcoffset the offset of
\* the local time from UTC.
BuildStatFromDoc(doc, now, utcoffset) ==
    LET st_size == IF doc.type = "dir" THEN DirSize
                   ELSE IF "size" \in DOMAIN doc THEN doc.size ELSE 0
        last_updated_at_epoch == Timestamp(doc.last_updated_at, utcoffset)
    IN  [st_mtime |-> last_updated_at_epoch,
         st_ctime |-> last_updated_at_epoch,
         st_atime |-> now,
         st_size |-> st_size,
         st_mode |-> IF doc.type = "dir" THEN DirMode ELSE FileMode,
         st_nlink |-> IF doc.type = "dir" THEN 2 ELSE 1,
         st_blocks |-> (st_size + BlockSize - 1) \div BlockSize]

\* The code points of the characters of the paths.
Ord(c) ==
    CASE c = "+" -> 43 [] c = "." -> 46 [] c = "/" -> 47 [] c = "a" -> 97 [] c = "b" -> 98

\* p < q as strings; pymongo.ASCENDING on the path compares them so.
RECURSIVE StrLess(_, _)
StrLess(p, q) ==
    IF q = <<>> THEN FALSE
    ELSE IF p = <<>> THEN TRUE
    ELSE IF p[1] # q[1] THEN Ord(p[1]) < Ord(q[1])
    ELSE StrLess(Tail(p), Tail(q))

\* .sort([("path", pymongo.ASCENDING)]): the documents of a bag, in the order
\* of their paths.
RECURSIVE SortByPath(_)
SortByPath(s) ==
    IF BagToSet(s) = {} THEN <<>>
    ELSE LET first == CHOOSE d \in BagToSet(s) :
                          \A e \in BagToSet(s) : ~StrLess(e.path, d.path)
         IN  <<first>> \o SortByPath(s (-) One(first))

\* Whether the regular expression "^" + prefix + "[^/]+$" matches p: prefix
\* is read as a regular expression, and the match goes to the end of p.
RegexPrefixThenName(prefix, p) ==
    LET items == Compile(prefix, 1) \o <<NotSlashPlus>>
        ends == Ends(items, 1, p, 1)
    IN  \E j \in 1..Len(ends) : ends[j] = Len(p) + 1

\* col.find({"path": {"$regex": "^/[^/]+$"}}) for "/", and
\* col.find({"path": {"$regex": f"^{path}/[^/]+$"}}) for the other paths
FindChildren(s, path) ==
    LET prefix == IF path = Root THEN <<"/">> ELSE path \o <<"/">>
    IN  [d \in { e \in BagToSet(s) : RegexPrefixThenName(prefix, e.path) } |-> s[d]]

\* re.sub(f"^{path}/?", "", p): p without the first match of the regular
\* expression path followed by at most one "/" at its start, p if there is
\* none.
SubPathPrefix(path, p) ==
    LET items == Compile(path \o <<"/", "?">>, 1)
        ends == Ends(items, 1, p, 1)
    IN  IF ends = <<>> THEN p ELSE Slice(p, ends[1] - 1, Len(p))

\* The names readdir yields: ".", "..", and the names of the documents found.
ReaddirNames(s, path) ==
    LET file_docs == SortByPath(FindChildren(s, path))
    IN  << <<".">>, <<".", ".">> >>
        \o [i \in 1..Len(file_docs) |-> SubPathPrefix(path, file_docs[i].path)]

----------------------------------------------------------------------------
(* The state after construction: __init__ on an empty collection *)

\* What a call leaves in last: Raised for a call that raised err, Returned for
\* one that returned ret.
Raised(call, err) == call @@ [err |-> err]
Returned(call, ret) == call @@ [err |-> "", ret |-> ret]

\* The threads of the bridge that run calls at the same time, and a thread
\* that runs no call.
Threads == {1, 2}
Idle == [pc |-> "idle"]

\* The paths of the documents that an earlier mount has left in the
\* collection: "/", "/a", "/ab".
LeftPaths == { Root, <<"/", "a">>, <<"/", "a", "b">> }

\* The collections mongo_connector.connect() returns: at each path no
\* document, a directory or an empty file.
Collections ==
    LET left == { BuildDoc(path, "dir", <<>>, 0) : path \in LeftPaths }
                \cup { BuildDoc(path, "file", << <<>> >>, 0) : path \in LeftPaths }
        kept == { docs \in SUBSET left :
                    \A d \in docs, e \in docs : d.path = e.path => d = e }
    IN  { [d \in docs |-> 1] : docs \in kept }

\* __init__: the collection of the connection, with a root made when
\* find_one finds no document at "/".
Init ==
    /\ clock = 0
    /\ \E col \in Collections :
          store = IF FindOne(col, Root) = <<>> THEN CreateRoot(col, 0).s ELSE col
    /\ before = NoDocs
    /\ last = Returned([op |-> "init"], "None")
    /\ threads = [t \in Threads |-> Idle]

\* Time passes between two calls.
Tick ==
    /\ clock < MaxClock
    /\ clock' = clock + 1
    /\ before' = store
    /\ UNCHANGED threads
    /\ last' = Returned([op |-> "tick"], "None")
    /\ UNCHANGED store

\* A call that may insert a document is made while the collection has room.
Room == BagCardinality(store) < MaxDocs

----------------------------------------------------------------------------
(* The operations *)

\* mkdir
Mkdir(path) ==
    LET parent_path == ParentPath(path)
        call == [op |-> "mkdir", path |-> path]
        r == CreateDir(store, path, clock)
    IN  /\ Room
        /\ before' = store
        /\ UNCHANGED threads
        /\ UNCHANGED clock
        /\ IF FindOneDir(store, parent_path) # <<>>
           THEN /\ store' = r.s
                /\ last' = IF r.ok THEN Returned(call, 0)
                           ELSE Raised(call, "DuplicateKeyError")
           ELSE /\ store' = store
                /\ last' = Raised(call, "EIO")

\* create
Create(path) ==
    LET parent_path == ParentPath(path)
        call == [op |-> "create", path |-> path]
        r == CreateFile(store, path, clock)
    IN  /\ Room
        /\ before' = store
        /\ UNCHANGED threads
        /\ UNCHANGED clock
        /\ IF FindOneDir(store, parent_path) # <<>>
           THEN /\ store' = r.s
                /\ last' = IF r.ok THEN Returned(call, 0)
                           ELSE Raised(call, "DuplicateKeyError")
           ELSE /\ store' = store
                /\ last' = Raised(call, "EIO")

\* rmdir
Rmdir(path) ==
    /\ before' = store
    /\ UNCHANGED threads
    /\ UNCHANGED clock
    /\ store' = DeleteManyRegex(DeleteOne(store, path), path)
    /\ last' = Returned([op |-> "rmdir", path |-> path], SUCCESS_EXIT_CODE)

\* unlink without its test of the type
UnlinkAnyType(path) ==
    LET file_doc == FindOne(store, path)
        call == [op |-> "unlink", path |-> path]
    IN  /\ before' = store
        /\ UNCHANGED threads
        /\ UNCHANGED clock
        /\ IF file_doc # <<>>
           THEN /\ store' = DeleteOne(store, path)
                /\ last' = Returned(call, SUCCESS_EXIT_CODE)
           ELSE /\ store' = store
                /\ last' = Raised(call, "ENOENT")

\* unlink
Unlink(path) ==
    LET file_doc == FindOne(store, path)
        call == [op |-> "unlink", path |-> path]
    IN  /\ before' = store
        /\ UNCHANGED threads
        /\ UNCHANGED clock
        /\ IF file_doc # <<>>
           THEN IF file_doc[1].type = "dir"
                THEN /\ store' = store
                     /\ last' = Raised(call, "EISDIR")
                ELSE /\ store' = DeleteOne(store, path)
                     \* res is a DeleteResult object, which is true
                     /\ last' = Returned(call, SUCCESS_EXIT_CODE)
           ELSE /\ store' = store
                /\ last' = Raised(call, "ENOENT")

\* rename that sets created_at as well
RenameAsNew(old, new) ==
    LET call == [op |-> "rename", path |-> old, new |-> new]
        r == UpdateOne(store, old,
                       [path |-> new, created_at |-> clock, last_updated_at |-> clock])
    IN  /\ before' = store
        /\ UNCHANGED threads
        /\ UNCHANGED clock
        /\ store' = r.s
        /\ last' = IF r.ok THEN Returned(call, "None")
                   ELSE Raised(call, "DuplicateKeyError")

\* rename
Rename(old, new) ==
    LET call == [op |-> "rename", path |-> old, new |-> new]
        r == UpdateOne(store, old, [path |-> new, last_updated_at |-> clock])
    IN  /\ before' = store
        /\ UNCHANGED threads
        /\ UNCHANGED clock
        /\ store' = r.s
        \* res is an UpdateResult object, which is never None
        /\ last' = IF r.ok THEN Returned(call, "None")
                   ELSE Raised(call, "DuplicateKeyError")

\* write
Write(path, buf, offset) ==
    LET file_doc == FindOne(store, path)
        call == [op |-> "write", path |-> path, buf |-> buf, offset |-> offset]
    IN  /\ before' = store
        /\ UNCHANGED threads
        /\ UNCHANGED clock
        /\ IF file_doc = <<>>
           THEN /\ store' = store
                /\ last' = Raised(call, "EIO")
           ELSE IF "content" \notin DOMAIN file_doc[1]
           THEN /\ store' = store
                /\ last' = Raised(call, "KeyError")
           ELSE LET updated_content == BytesIOWrite(file_doc[1].content, offset, buf)
                    r == UpdateOne(store, path,
                                   [content |-> updated_content, size |-> Len(buf),
                                    last_updated_at |-> clock])
                IN  /\ store' = r.s
                    \* res is an UpdateResult object, which is true
                    /\ last' = Returned(call, Len(buf))

\* truncate that cuts or pads the content to length
TruncateToLength(path, length) ==
    LET call == [op |-> "truncate", path |-> path, length |-> length]
        doc == FindOne(store, path)
        content == IF doc # <<>> /\ "content" \in DOMAIN doc[1] THEN doc[1].content ELSE <<>>
        cut == Slice(content, 0, length) \o Zeros(length - Len(content))
        r == UpdateOne(store, path,
                       [content |-> cut, size |-> length, last_updated_at |-> clock])
    IN  /\ before' = store
        /\ UNCHANGED threads
        /\ UNCHANGED clock
        /\ store' = r.s
        /\ last' = Returned(call, SUCCESS_EXIT_CODE)

\* truncate that sets the type as well
TruncateAsFile(path, length) ==
    LET call == [op |-> "truncate", path |-> path, length |-> length]
        r == UpdateOne(store, path,
                       [type |-> "file", content |-> <<>>, size |-> 0,
                        last_updated_at |-> clock])
    IN  /\ before' = store
        /\ UNCHANGED threads
        /\ UNCHANGED clock
        /\ store' = r.s
        /\ last' = Returned(call, SUCCESS_EXIT_CODE)

\* truncate
Truncate(path, length) ==
    LET call == [op |-> "truncate", path |-> path, length |-> length]
        r == UpdateOne(store, path, [content |-> <<>>, size |-> 0, last_updated_at |-> clock])
    IN  /\ before' = store
        /\ UNCHANGED threads
        /\ UNCHANGED clock
        /\ store' = r.s
        \* res is an UpdateResult object, which is true
        /\ last' = Returned(call, SUCCESS_EXIT_CODE)

\* wipe
Wipe ==
    /\ before' = store
    /\ UNCHANGED threads
    /\ UNCHANGED clock
    /\ store' = CreateRoot(NoDocs, clock).s
    /\ last' = Returned([op |-> "wipe"], "None")

\* create_root, called by itself
Create_root ==
    LET call == [op |-> "create_root"]
        r == CreateRoot(store, clock)
    IN  /\ Room
        /\ before' = store
        /\ UNCHANGED threads
        /\ UNCHANGED clock
        /\ store' = r.s
        /\ last' = IF r.ok THEN Returned(call, "None")
                   ELSE Raised(call, "DuplicateKeyError")

\* chmod, chown, readlink, mknod, link, utimens, flush, release, fsync, and
\* symlink
NoOp ==
    /\ before' = store
    /\ UNCHANGED threads
    /\ UNCHANGED <<store, clock>>
    /\ last' = Returned([op |-> "noop"], NOT_IMPLEMENT_EXIT_CODE)

\* What getattr(path) raises or returns on the collection s at the time now
\* of a machine whose local time is utcoffset from UTC.
GetattrResult(s, path, now, utcoffset) ==
    LET doc == FindOne(s, path)
        call == [op |-> "getattr", path |-> path]
    IN  IF doc = <<>> THEN Raised(call, "ENOENT")
        ELSE Returned(call, BuildStatFromDoc(doc[1], now, utcoffset))

\* getattr
Getattr(path) ==
    /\ before' = store
    /\ UNCHANGED threads
    /\ UNCHANGED <<store, clock>>
    /\ \E utcoffset \in UtcOffsets :
          last' = GetattrResult(store, path, clock, utcoffset)

\* readdir, run to the end of its generator
Readdir(path) ==
    /\ before' = store
    /\ UNCHANGED threads
    /\ UNCHANGED <<store, clock>>
    /\ last' = Returned([op |-> "readdir", path |-> path], ReaddirNames(store, path))

\* open
Open(path) ==
    LET file_doc == FindOne(store, path)
        call == [op |-> "open", path |-> path]
    IN  /\ before' = store
        /\ UNCHANGED threads
        /\ UNCHANGED <<store, clock>>
        /\ last' = IF file_doc = <<>> THEN Raised(call, "EACCES")
                   ELSE Returned(call, SUCCESS_EXIT_CODE)

\* What read(path, length, offset) raises or returns on the collection s.
ReadResult(s, path, length, offset) ==
    LET file_doc == FindOne(s, path)
        call == [op |-> "read", path |-> path, length |-> length, offset |-> offset]
    IN  IF file_doc = <<>> THEN Raised(call, "EIO")
        ELSE IF "content" \notin DOMAIN file_doc[1] THEN Raised(call, "KeyError")
        ELSE Returned(call, BytesIORead(file_doc[1].content, offset, length))

\* read
Read(path, length, offset) ==
    /\ before' = store
    /\ UNCHANGED threads
    /\ UNCHANGED <<store, clock>>
    /\ last' = ReadResult(store, path, length, offset)

----------------------------------------------------------------------------
(* The specifications *)

\* The calls on the namespace: every operation on every path, write with one
\* byte past the end of an empty file.
Next ==
    \/ \E path \in Paths : Mkdir(path)
    \/ \E path \in Paths : Create(path)
    \/ \E path \in Paths : Rmdir(path)
    \/ \E path \in Paths : Unlink(path)
    \/ \E old \in Paths, new \in Paths : Rename(old, new)
    \/ \E path \in Paths : Write(path, <<1>>, 1)
    \/ \E path \in Paths : Truncate(path, 0)
    \/ Wipe
    \/ Create_root
    \/ NoOp
    \/ \E path \in Paths : Getattr(path)
    \/ \E path \in Paths : Readdir(path)
    \/ \E path \in Paths : Open(path)
    \/ \E path \in Paths : Read(path, 1, 1)

Spec == Init /\ [][Next]_vars

\* The calls on the file contents: every operation on the root and one path
\* below it, write with every buffer at every offset of the path below the
\* root.
NextData ==
    \/ \E path \in DataPaths : Mkdir(path)
    \/ \E path \in DataPaths : Create(path)
    \/ \E path \in DataPaths : Rmdir(path)
    \/ \E path \in DataPaths : Unlink(path)
    \/ \E old \in DataPaths, new \in DataPaths : Rename(old, new)
    \/ \E path \in DataPaths \ {Root}, buf \in Bufs, offset \in Offsets :
          Write(path, buf, offset)
    \/ \E path \in DataPaths, length \in Offsets : Truncate(path, length)
    \/ Wipe
    \/ Create_root
    \/ NoOp
    \/ \E path \in DataPaths : Getattr(path)
    \/ \E path \in DataPaths, length \in Offsets, offset \in Offsets :
          Read(path, length, offset)

SpecData == Init /\ [][NextData]_vars

\* The calls as time passes: those that create, move, fill and delete
\* documents, on three paths.
NextClock ==
    \/ Tick
    \/ \E path \in ClockPaths : Mkdir(path)
    \/ \E path \in ClockPaths : Create(path)
    \/ \E path \in ClockPaths : Rmdir(path)
    \/ \E path \in ClockPaths : Unlink(path)
    \/ \E old \in ClockPaths, new \in ClockPaths : Rename(old, new)
    \/ \E path \in ClockPaths : Write(path, <<1>>, 1)
    \/ Wipe
    \/ Create_root

SpecClock == Init /\ [][NextClock]_vars

\* The calls on names with special characters: those that create, delete and
\* list documents.
NextNames ==
    \/ \E path \in NamePaths : Mkdir(path)
    \/ \E path \in NamePaths : Create(path)
    \/ \E path \in NamePaths : Rmdir(path)
    \/ \E path \in NamePaths : Readdir(path)

SpecNames == Init /\ [][NextNames]_vars

----------------------------------------------------------------------------
(* Calls that run at the same time, one store call a step *)

\* While calls run in the threads, last says so and before is empty.
InThreads == Returned([op |-> "threads"], "None")

\* A step of the thread t: it goes on as th and leaves the collection s.
Step(t, th, s) ==
    /\ threads' = [threads EXCEPT ![t] = th]
    /\ store' = s
    /\ before' = NoDocs
    /\ last' = InThreads
    /\ UNCHANGED clock

\* A thread that has left its call with the result res.
Done(res) == [pc |-> "done", res |-> res]

\* mkdir and create without their test of the parent
TCheckParentNone(t, op, path) ==
    LET call == [op |-> op, path |-> path]
        found == FindOneDir(store, ParentPath(path)) # <<>>
    IN  /\ threads[t].pc = "idle"
        /\ Step(t, [pc |-> "insert", call |-> call, parent_at_check |-> found], store)

\* mkdir and create, to their find_one of the parent.  parent_at_check
\* records what it found.
TCheckParent(t, op, path) ==
    LET call == [op |-> op, path |-> path]
        found == FindOneDir(store, ParentPath(path)) # <<>>
    IN  /\ threads[t].pc = "idle"
        /\ IF found
           THEN Step(t, [pc |-> "insert", call |-> call, parent_at_check |-> TRUE], store)
           ELSE Step(t, Done(Raised(call, "EIO")) @@ [parent_at_check |-> FALSE], store)

\* an insert whose DuplicateKeyError is caught and dropped
TInsertQuiet(t) ==
    LET th == threads[t]
        r == IF th.call.op = "mkdir" THEN CreateDir(store, th.call.path, clock)
             ELSE CreateFile(store, th.call.path, clock)
    IN  /\ th.pc = "insert"
        /\ BagCardinality(store) < MaxDocs
        /\ Step(t, Done(Returned(th.call, 0))
                   @@ [parent_at_check |-> th.parent_at_check,
                       parent_at_insert |-> FindOneDir(store, ParentPath(th.call.path)) # <<>>],
                r.s)

\* mkdir and create, their insert_one.  parent_at_insert records whether a
\* directory is at the parent when the insert is made.
TInsert(t) ==
    LET th == threads[t]
        r == IF th.call.op = "mkdir" THEN CreateDir(store, th.call.path, clock)
             ELSE CreateFile(store, th.call.path, clock)
    IN  /\ th.pc = "insert"
        /\ BagCardinality(store) < MaxDocs
        /\ Step(t, Done(IF r.ok THEN Returned(th.call, 0)
                        ELSE Raised(th.call, "DuplicateKeyError"))
                   @@ [parent_at_check |-> th.parent_at_check,
                       parent_at_insert |-> FindOneDir(store, ParentPath(th.call.path)) # <<>>],
                r.s)

\* rmdir, its delete_one
TRmdirDeleteOne(t, path) ==
    /\ threads[t].pc = "idle"
    /\ Step(t, [pc |-> "delete_many", call |-> [op |-> "rmdir", path |-> path]],
            DeleteOne(store, path))

\* rmdir, its delete_many
TRmdirDeleteMany(t) ==
    LET th == threads[t]
    IN  /\ th.pc = "delete_many"
        /\ Step(t, Done(Returned(th.call, SUCCESS_EXIT_CODE)),
                DeleteManyRegex(store, th.call.path))

\* unlink, to its find_one
TUnlinkFind(t, path) ==
    LET call == [op |-> "unlink", path |-> path]
        file_doc == FindOne(store, path)
    IN  /\ threads[t].pc = "idle"
        /\ IF file_doc = <<>> THEN Step(t, Done(Raised(call, "ENOENT")), store)
           ELSE IF file_doc[1].type = "dir" THEN Step(t, Done(Raised(call, "EISDIR")), store)
           ELSE Step(t, [pc |-> "delete_one", call |-> call], store)

\* unlink, its delete_one
TUnlinkDelete(t) ==
    LET th == threads[t]
    IN  /\ th.pc = "delete_one"
        /\ Step(t, Done(Returned(th.call, SUCCESS_EXIT_CODE)), DeleteOne(store, th.call.path))

\* rename, which makes one store call
TRename(t, old, new) ==
    LET call == [op |-> "rename", path |-> old, new |-> new]
        r == UpdateOne(store, old, [path |-> new, last_updated_at |-> clock])
    IN  /\ threads[t].pc = "idle"
        /\ Step(t, Done(IF r.ok THEN Returned(call, "None")
                        ELSE Raised(call, "DuplicateKeyError")), r.s)

\* write, to its find_one.  loaded is the content found, and first records
\* whether the thread looked before the other threads began.
TWriteFind(t, path, buf, offset) ==
    LET call == [op |-> "write", path |-> path, buf |-> buf, offset |-> offset]
        file_doc == FindOne(store, path)
    IN  /\ threads[t].pc = "idle"
        /\ IF file_doc = <<>> THEN Step(t, Done(Raised(call, "EIO")), store)
           ELSE IF "content" \notin DOMAIN file_doc[1]
           THEN Step(t, Done(Raised(call, "KeyError")), store)
           ELSE Step(t, [pc |-> "update", call |-> call,
                         loaded |-> file_doc[1].content,
                         first |-> \A u \in Threads \ {t} : threads[u].pc = "idle"],
                     store)

\* an update that stores the buffer as the content
TWriteUpdateBufOnly(t) ==
    LET th == threads[t]
        r == UpdateOne(store, th.call.path,
                       [content |-> th.call.buf, size |-> Len(th.call.buf),
                        last_updated_at |-> clock])
    IN  /\ th.pc = "update"
        /\ Step(t, Done(Returned(th.call, Len(th.call.buf)))
                   @@ [loaded |-> th.loaded, first |-> th.first],
                r.s)

\* write, its update_one with the content made of the content loaded
TWriteUpdate(t) ==
    LET th == threads[t]
        updated_content == BytesIOWrite(th.loaded, th.call.offset, th.call.buf)
        r == UpdateOne(store, th.call.path,
                       [content |-> updated_content, size |-> Len(th.call.buf),
                        last_updated_at |-> clock])
    IN  /\ th.pc = "update"
        /\ Step(t, Done(Returned(th.call, Len(th.call.buf)))
                   @@ [loaded |-> th.loaded, first |-> th.first],
                r.s)

\* create_root, called by itself: its insert_one
TCreateRoot(t) ==
    LET call == [op |-> "create_root"]
        r == CreateRoot(store, clock)
    IN  /\ threads[t].pc = "idle"
        /\ BagCardinality(store) < MaxDocs
        /\ Step(t, Done(IF r.ok THEN Returned(call, "None")
                        ELSE Raised(call, "DuplicateKeyError")), r.s)

\* wipe, its delete_many
TWipeDeleteMany(t) ==
    /\ threads[t].pc = "idle"
    /\ Step(t, [pc |-> "create_root", call |-> [op |-> "wipe"]], NoDocs)

\* wipe, its create_root
TWipeCreateRoot(t) ==
    LET th == threads[t]
        r == CreateRoot(store, clock)
    IN  /\ th.pc = "create_root"
        /\ Step(t, Done(IF r.ok THEN Returned(th.call, "None")
                        ELSE Raised(th.call, "DuplicateKeyError")), r.s)

\* No thread has begun a call.
AllIdle == \A t \in Threads : threads[t].pc = "idle"

\* Calls made one after the other fill the collection; then each thread runs
\* one call, a store call at a time, in any order.
NextConc ==
    \/ \E path \in ConcPaths : AllIdle /\ Mkdir(path)
    \/ \E path \in ConcPaths : AllIdle /\ Create(path)
    \/ \E path \in ConcPaths : AllIdle /\ Write(path, <<1>>, 1)
    \/ \E t \in Threads, op \in {"mkdir", "create"}, path \in ConcPaths : TCheckParent(t, op, path)
    \/ \E t \in Threads : TInsert(t)
    \/ \E t \in Threads, path \in ConcPaths : TRmdirDeleteOne(t, path)
    \/ \E t \in Threads : TRmdirDeleteMany(t)
    \/ \E t \in Threads, path \in ConcPaths : TUnlinkFind(t, path)
    \/ \E t \in Threads : TUnlinkDelete(t)
    \/ \E t \in Threads, old \in ConcPaths, new \in ConcPaths : TRename(t, old, new)
    \/ \E t \in Threads, path \in ConcPaths, buf \in Bufs, offset \in Offsets :
          TWriteFind(t, path, buf, offset)
    \/ \E t \in Threads : TWriteUpdate(t)
    \/ \E t \in Threads : TWipeDeleteMany(t)
    \/ \E t \in Threads : TWipeCreateRoot(t)
    \/ \E t \in Threads : TCreateRoot(t)

SpecConc == Init /\ [][NextConc]_vars

----------------------------------------------------------------------------
(* The properties *)

\* The documents of a collection.
Docs(s) == BagToSet(s)

\* The number of documents at path p, copies counted.
CountAtPath(s, p) == BagCardinality([d \in AtPath(s, p) |-> s[d]])

\* Whether the last call was op and has returned or raised.
Called(op) == last.op = op

\* Whether p is path itself or lies below it: p begins with path and a "/".
Below(path, p) ==
    LET prefix == IF path = Root THEN Root ELSE path \o <<"/">>
    IN  /\ Len(p) > Len(prefix)
        /\ SubSeq(p, 1, Len(prefix)) = prefix

\* The collection s without the documents at path and below it.
WithoutSubtree(s, path) ==
    [d \in { e \in Docs(s) : e.path # path /\ ~Below(path, e.path) } |-> s[d]]

\* C1: in every reachable state the collection holds exactly one document at
\* "/", and it is a directory.
C1_RootIsOneDir ==
    /\ CountAtPath(store, Root) = 1
    /\ \A d \in AtPath(store, Root) : d.type = "dir"

\* C2: every document of type file has size = len(content).
C2_SizeIsLenContent ==
    \A d \in Docs(store) : d.type = "file" => d.size = Len(d.content)

\* C3: no two documents of the collection have the same path.
C3_PathUnique ==
    \A d \in Docs(store) : CountAtPath(store, d.path) = 1

\* C3 happens: a creation at a path that holds a document was called, and the
\* path still holds one document.
C3_Witness ==
    /\ last.op \in {"mkdir", "create"}
    /\ AtPath(before, last.path) # {}
    /\ FindOneDir(before, ParentPath(last.path)) # <<>>
    /\ CountAtPath(store, last.path) = 1

\* C4: mkdir and create raise EIO and leave the collection as it was whenever
\* no document of type dir is at the parent path.
C4_ParentGuard ==
    ( /\ last.op \in {"mkdir", "create"}
      /\ ~\E d \in Docs(before) : d.path = ParentPath(last.path) /\ d.type = "dir" )
    => /\ last.err = "EIO"
       /\ store = before

\* C4 happens: create was called below a path that holds a file.
C4_Witness ==
    /\ Called("create")
    /\ \E d \in Docs(before) : d.path = ParentPath(last.path) /\ d.type = "file"
    /\ last.err = "EIO"

\* C5: rmdir(path) deletes the documents at path and below it, and no other.
C5_RmdirSubtreeOnly ==
    Called("rmdir") => store = WithoutSubtree(before, last.path)

\* C6: rmdir on a path that holds no document returns success and leaves the
\* collection as it was.
C6_RmdirMissingNoChange ==
    (Called("rmdir") /\ AtPath(before, last.path) = {})
    => /\ last.err = "" /\ last.ret = SUCCESS_EXIT_CODE
       /\ store = before

\* C7: rename(old, new), with a document at old and none at new, leaves none
\* at old and at new the document that was at old, changed in path and
\* last_updated_at only; the other documents are as they were.
C7_RenameMoves ==
    (Called("rename") /\ AtPath(before, last.path) # {} /\ AtPath(before, last.new) = {})
    => /\ last.err = ""
       /\ FindOne(store, last.path) = <<>>
       /\ FindOne(store, last.new) # <<>>
       /\ LET was == FindOne(before, last.path)[1]
              is == FindOne(store, last.new)[1]
          IN  /\ DOMAIN is = DOMAIN was
              /\ \A f \in DOMAIN was \ {"path", "last_updated_at"} : is[f] = was[f]
              /\ is.last_updated_at = clock
              /\ store (-) One(is) = before (-) One(was)

\* C7 happens: a file with content, created earlier, was renamed next to
\* another document.
C7_Witness ==
    /\ Called("rename")
    /\ AtPath(before, last.new) = {}
    /\ \E d \in AtPath(before, last.path) :
          /\ d.type = "file"
          /\ d.content # <<>>
          /\ d.created_at < clock
    /\ AtPath(store, last.new) # {}
    /\ BagCardinality(store) >= 2

\* C8: rename raises ENOENT and leaves the collection as it was whenever no
\* document is at old.
C8_RenameMissingNotFound ==
    (Called("rename") /\ AtPath(before, last.path) = {})
    => /\ last.err = "ENOENT"
       /\ store = before

\* C9: no document of type dir has a content or a size field.
C9_DirHasNoContent ==
    \A d \in Docs(store) :
        d.type = "dir" => "content" \notin DOMAIN d /\ "size" \notin DOMAIN d

\* C10: unlink on a path that holds a directory raises EISDIR and leaves the
\* collection as it was.
C10_UnlinkDirectory ==
    (Called("unlink") /\ \E d \in AtPath(before, last.path) : d.type = "dir")
    => /\ last.err = "EISDIR"
       /\ store = before

\* C10 happens: unlink was called on a directory that holds a document.
C10_Witness ==
    /\ Called("unlink")
    /\ last.err = "EISDIR"
    /\ \E d \in AtPath(store, last.path) : d.type = "dir"
    /\ \E d \in Docs(store) : Below(last.path, d.path)

\* C11, as claimed: mkdir(p) and create(p) succeed whenever a directory is at
\* parent(p), and a lookup of p then finds a document of the type created.
C11_CreateThenLookup ==
    (last.op \in {"mkdir", "create"} /\ FindOneDir(before, ParentPath(last.path)) # <<>>)
    => /\ last.err = ""
       /\ \A d \in AtPath(store, last.path) :
             d.type = (IF Called("mkdir") THEN "dir" ELSE "file")

\* C11, amended: mkdir(p) and create(p) succeed whenever a directory is at
\* parent(p) and no document is at p; a lookup of p then finds a directory,
\* or a file with empty content and size 0, and getattr says the same.
C11_CreateFreshThenLookup ==
    ( /\ last.op \in {"mkdir", "create"}
      /\ FindOneDir(before, ParentPath(last.path)) # <<>>
      /\ AtPath(before, last.path) = {} )
    => /\ last.err = "" /\ last.ret = 0
       /\ FindOne(store, last.path) # <<>>
       /\ LET doc == FindOne(store, last.path)[1]
              st == GetattrResult(store, last.path, clock, 0)
          IN  /\ st.err = ""
              /\ IF Called("mkdir")
                 THEN doc.type = "dir" /\ st.ret.st_mode = DirMode
                 ELSE /\ doc.type = "file"
                      /\ "content" \in DOMAIN doc /\ doc.content = <<>>
                      /\ "size" \in DOMAIN doc /\ doc.size = 0
                      /\ st.ret.st_mode = FileMode /\ st.ret.st_size = 0

\* C11 happens: a file was created below a directory other than the root.
C11_Witness ==
    /\ Called("create")
    /\ last.err = ""
    /\ AtPath(before, last.path) = {}
    /\ ParentPath(last.path) # Root
    /\ AtPath(store, last.path) # {}

\* The path of the entry name of the directory path.
Join(path, name) == IF path = Root THEN Root \o name ELSE path \o <<"/">> \o name

\* The documents one segment below path.
Children(s, path) == { d \in Docs(s) : d.path # path /\ ParentPath(d.path) = path }

\* C12: readdir of a directory yields ".", "..", and then the names of the
\* documents one segment below it, each once, in ascending order of path.
C12_ReaddirChildren ==
    (Called("readdir") /\ \E d \in AtPath(before, last.path) : d.type = "dir")
    => LET names == last.ret
           kids == Children(before, last.path)
       IN  /\ last.err = ""
           /\ Len(names) = 2 + Cardinality(kids)
           /\ names[1] = <<".">>
           /\ names[2] = <<".", ".">>
           /\ { Join(last.path, names[i]) : i \in 3..Len(names) } = { d.path : d \in kids }
           /\ \A i, j \in 3..Len(names) :
                 i < j => StrLess(Join(last.path, names[i]), Join(last.path, names[j]))

\* C13: write of B at offset 0 to an empty file returns len(B), and read of
\* len(B) bytes at offset 0 then returns B.
C13_WriteReadRoundTrip ==
    ( /\ Called("write")
      /\ last.offset = 0
      /\ \E d \in AtPath(before, last.path) : d.type = "file" /\ d.content = <<>> )
    => /\ last.err = "" /\ last.ret = Len(last.buf)
       /\ LET r == ReadResult(store, last.path, Len(last.buf), 0)
          IN  r.err = "" /\ r.ret = last.buf

\* C13 happens: bytes were written at offset 0 to an empty file.
C13_Witness ==
    /\ Called("write")
    /\ last.offset = 0
    /\ last.buf # <<>>
    /\ \E d \in AtPath(before, last.path) : d.type = "file" /\ d.content = <<>>
    /\ last.err = ""

\* Whether the write of buf at offset to the content was left every byte of
\* was outside [offset, offset + len(buf)) where it was in the content is.
OutsidePreserved(was, is, offset, buf) ==
    /\ Len(is) >= Len(was)
    /\ \A i \in 1..Len(was) : (i <= offset \/ i > offset + Len(buf)) => is[i] = was[i]

\* C14, as claimed: write of B at offset O > 0 to a file of length L < O
\* leaves the old content, then zeros for [L, O), then B; every write
\* preserves the old bytes outside [O, O + len(B)).
C14_OffsetWrite ==
    (Called("write") /\ last.err = "")
    => \A was \in { d \in AtPath(before, last.path) : d.type = "file" } :
         \A is \in AtPath(store, last.path) :
            /\ OutsidePreserved(was.content, is.content, last.offset, last.buf)
            /\ (last.offset > 0 /\ Len(was.content) < last.offset)
               => is.content = was.content
                                \o [i \in 1..(last.offset - Len(was.content)) |-> 0]
                                \o last.buf

\* C14, amended: the same for a write of one byte or more; a write of no
\* byte leaves the content as it was.
C14_OffsetWriteNonEmpty ==
    (Called("write") /\ last.err = "")
    => \A was \in { d \in AtPath(before, last.path) : d.type = "file" } :
         \A is \in AtPath(store, last.path) :
            /\ OutsidePreserved(was.content, is.content, last.offset, last.buf)
            /\ (last.buf # <<>> /\ last.offset > 0 /\ Len(was.content) < last.offset)
               => is.content = was.content
                                \o [i \in 1..(last.offset - Len(was.content)) |-> 0]
                                \o last.buf
            /\ last.buf = <<>> => is.content = was.content

\* C14 happens: bytes were written past the end of a file.
C14_Witness ==
    /\ Called("write")
    /\ last.err = ""
    /\ last.buf # <<>>
    /\ \E d \in AtPath(before, last.path) : d.type = "file" /\ Len(d.content) < last.offset

\* C15: after truncate(p, length) on a file, read(p, length, 0) returns no
\* byte and the st_size of getattr(p) is 0.
C15_TruncateEmpties ==
    (Called("truncate") /\ \E d \in AtPath(before, last.path) : d.type = "file")
    => /\ last.err = ""
       /\ LET r == ReadResult(store, last.path, last.length, 0)
              st == GetattrResult(store, last.path, clock, 0)
          IN  /\ r.err = "" /\ r.ret = <<>>
              /\ st.err = "" /\ st.ret.st_size = 0

\* C15 happens: a file with content was truncated to a length above 0.
C15_Witness ==
    /\ Called("truncate")
    /\ last.length > 0
    /\ \E d \in AtPath(before, last.path) : d.type = "file" /\ d.content # <<>>
    /\ AtPath(store, last.path) # {}

\* Whether the document is of the collection after the last call is the
\* document was of the collection before it: it is at the same path, or the
\* call has moved it.
SameRecord(was, is) ==
    \/ is.path = was.path
    \/ /\ Called("rename") /\ last.err = ""
       /\ was.path = last.path /\ is.path = last.new

\* C18: a document that is in the collection before and after a call has the
\* same type; wipe deletes every document and creates the root anew.
C18_TypeNeverChanges ==
    ~Called("wipe")
    => \A was \in Docs(before), is \in Docs(store) :
          SameRecord(was, is) => is.type = was.type

\* C18 happens: truncate was called on a directory, or a file was moved.
C18_Witness ==
    /\ Called("truncate")
    /\ \E d \in AtPath(before, last.path) : d.type = "dir"
    /\ \E d \in AtPath(store, last.path) : "content" \in DOMAIN d

\* The bytes content[offset : offset + length].
Bytes(content, offset, length) ==
    LET rest == IF Len(content) > offset THEN Len(content) - offset ELSE 0
        n == IF length < rest THEN length ELSE rest
    IN  [i \in 1..n |-> content[offset + i]]

\* C19: read of a file returns content[offset : offset + length], read of a
\* path without a document raises EIO, and read leaves the collection as it
\* was.
C19_Read ==
    Called("read")
    => /\ store = before
       /\ AtPath(before, last.path) = {} => last.err = "EIO"
       /\ \A d \in AtPath(before, last.path) :
             d.type = "file"
             => last.err = "" /\ last.ret = Bytes(d.content, last.offset, last.length)

\* C19 happens: read at an offset above 0 returned bytes of a file.
C19_Witness ==
    /\ Called("read")
    /\ last.err = ""
    /\ last.offset > 0
    /\ last.ret # <<>>
    /\ \E d \in AtPath(before, last.path) : d.type = "file"

\* Both threads have left a call of ops at one path.
BothDone(ops) ==
    /\ \A t \in Threads : threads[t].pc = "done" /\ threads[t].res.op \in ops
    /\ threads[1].res.path = threads[2].res.path

\* The threads whose call returned.
Succeeded == { t \in Threads : threads[t].res.err = "" }

\* C16, as claimed: of two creations at one path that run at the same time at
\* most one succeeds, and one document is at the path afterwards.
C16_OneCreatorWins ==
    BothDone({"mkdir", "create"})
    => /\ Cardinality(Succeeded) <= 1
       /\ CountAtPath(store, threads[1].res.path) = 1

\* C16, amended: at most one succeeds and at most one document is at the path
\* afterwards: one if a directory is at the parent, and if none is there both
\* calls raise EIO.
C16_AtMostOneCreatorWins ==
    BothDone({"mkdir", "create"})
    => LET path == threads[1].res.path
       IN  /\ Cardinality(Succeeded) <= 1
           /\ CountAtPath(store, path) <= 1
           /\ IF FindOneDir(store, ParentPath(path)) # <<>>
              THEN CountAtPath(store, path) = 1
              ELSE \A t \in Threads : threads[t].res.err = "EIO"

\* C16 happens: both threads found the parent before either made its insert,
\* and the insert of one was rejected.
C16_Witness ==
    /\ BothDone({"mkdir", "create"})
    /\ \A t \in Threads : threads[t].parent_at_check
    /\ \E t \in Threads : threads[t].res.err = "DuplicateKeyError"
    /\ \E t \in Threads : threads[t].res.err = ""
    /\ threads[1].res.op # threads[2].res.op

\* The threads that have inserted a document with mkdir or create.
Inserted ==
    { t \in Threads : /\ threads[t].pc = "done"
                      /\ threads[t].res.op \in {"mkdir", "create"}
                      /\ threads[t].res.err = "" }

\* C17, as claimed: when mkdir or create inserts its document, a directory is
\* at the parent path at that instant.
C17_ParentAtInsert ==
    \A t \in Inserted : threads[t].parent_at_insert

\* C17, amended: when mkdir or create inserts its document, a directory was
\* at the parent path when the call looked for it, before the insert.
C17_ParentAtCheck ==
    \A t \in Threads :
        (t \in Inserted \/ threads[t].pc = "insert") => threads[t].parent_at_check

\* C17 happens: a document was inserted after another thread had deleted the
\* directory found at its parent path.
C17_Witness ==
    \E t \in Inserted : threads[t].parent_at_check /\ ~threads[t].parent_at_insert

\* The content the write of the thread t makes of the content c.
Written(t, c) == BytesIOWrite(c, threads[t].res.offset, threads[t].res.buf)

\* The content of the file when the first of two writes looked for it.
ContentAtStart == threads[CHOOSE t \in Threads : threads[t].first].loaded

\* Both threads have returned from a write to one path.
BothWrote == BothDone({"write"}) /\ Succeeded = Threads

\* C20, as claimed: the content after two writes that run at the same time is
\* the content that one write after the other makes, in one of the two orders.
C20_WritesSerializable ==
    BothWrote
    => \A d \in AtPath(store, threads[1].res.path) :
          d.content \in { Written(2, Written(1, ContentAtStart)),
                          Written(1, Written(2, ContentAtStart)) }

\* C20, amended: the content after two writes that run at the same time is
\* the content one of them made of the content it had loaded, which is the
\* content at the start or the content the other write stored.
C20_LastWriteWins ==
    BothWrote
    => \A d \in AtPath(store, threads[1].res.path) :
          \E t \in Threads :
             LET u == CHOOSE v \in Threads : v # t
             IN  /\ d.content = Written(t, threads[t].loaded)
                 /\ threads[t].loaded \in { ContentAtStart, Written(u, ContentAtStart) }

\* C20 happens: two writes to different bytes of a file ran at the same time,
\* and the bytes of one of them are lost.
C20_Witness ==
    /\ BothWrote
    /\ threads[1].res.buf # <<>> /\ threads[2].res.buf # <<>>
    /\ threads[1].res.offset # threads[2].res.offset
    /\ \A t \in Threads : threads[t].loaded = ContentAtStart
    /\ \E d \in AtPath(store, threads[1].res.path) :
          d.content \notin { Written(2, Written(1, ContentAtStart)),
                             Written(1, Written(2, ContentAtStart)) }

====
